---- MODULE Spec2Model ----
(***************************************************************************)
(* Model of the checkpoint manager (utils.save_checkpoint,                 *)
(* utils.load_checkpoint_file), of the feature materializer                *)
(* (prepare_numpy_data.prepare_numpy and its worker pool) and of the       *)
(* latent statistic estimator (utils.estimate_mu2_dict).                   *)
(*                                                                         *)
(* Python's None is the empty tuple <<>>, a value x that may be None is    *)
(* the one-element tuple <<x>>.  A directory is a function from the names  *)
(* of the files it holds to their contents.                                *)
(***************************************************************************)
EXTENDS Integers, Sequences, FiniteSets, TLC

VARIABLES
    \* ---- checkpoint manager ----
    net,        \* the training model object: its type tag and constructor parameters
    files,      \* the checkpoint directory: file name -> stored record
    calls,      \* history: the arguments of the save_checkpoint calls made so far
    cpc,        \* "train" while checkpoints are saved, "loaded" after load_checkpoint_file
    loadArgs,   \* the (checkpoint_file, finetune) of the load, None before it
    loadResult, \* what load_checkpoint_file returned or raised, None before it
    \* ---- feature materializer ----
    args,       \* the command line: set_name, np_dir (output_dir), sr (sample_rate)
    disk,       \* the file system: path -> content (a manifest is its sequence of lines)
    dirs,       \* the directories that exist
    wk,         \* per partition: the prepare_numpy invocation's locals and position
    written,    \* history: per partition, the paths its invocation has opened for writing
    initial,    \* history: disk and dirs as they were before the run
    \* ---- latent statistic estimator ----
    loader,     \* the data loader: the sequence of batches it yields
    fhvae,      \* the model: its mode and the variances of its two priors
    mpc,        \* "entry", "loop" or "done": the position in estimate_mu2_dict
    seen,       \* history: the indices of the batches taken from the loader
    nseg_table, \* sequence id -> number of latent codes accumulated
    z2_sum_table, \* sequence id -> sum of the latent codes accumulated
    mu2_dict,   \* the mapping returned, None before the return
    \* ---- framing of the audio utilities ----
    framed,     \* the last call of an AudioUtils function or of generate_feat: its
                \* arguments and the lengths in samples it used, None before any
    \* ---- evaluation script ----
    evalResult  \* the run of eval_model.py on the directory: its --step and how
                \* it ended, None before the run

ckptVars == <<net, files, calls, cpc, loadArgs, loadResult>>
prepVars == <<args, disk, dirs, wk, written, initial>>
mu2Vars == <<loader, fhvae, mpc, seen, nseg_table, z2_sum_table, mu2_dict>>
frameVars == <<framed>>
evalVars == <<evalResult>>

vars == <<ckptVars, prepVars, mu2Vars, frameVars, evalVars>>

None == <<>>
Some(x) == <<x>>

\* The directory d with file p (over)written with content c.
WriteFile(d, p, c) ==
    [n \in DOMAIN d \cup {p} |-> IF n = p THEN c ELSE d[n]]

-----------------------------------------------------------------------------
(* Checkpoint manager                                                      *)

MaxSaves == 2
MaxEpoch == 2

Epochs == 1..MaxEpoch
RecognizedTypes == {"fhvae", "simple_fhvae"}
ModelTypes == RecognizedTypes \cup {"other"}
ModelParams == {"hus128", "hus256"}
RunInfo == "run"
Weights == {"w1", "w2"}

\* The training state that goes into a checkpoint next to the weights: the
\* optimizer state, the best validation lower bound and the two histories
\* after k units of training.
TrainState(k) ==
    [optimizer  |-> <<"optim", k>>,
     best_val_lb |-> 0 - k,
     summary    |-> <<"summary", k>>,
     values     |-> <<"values", k>>]
TrainStates == {TrainState(k) : k \in {1, 2}}

\* f_str = f"{model.model}_{run_info}_e{epoch}"
FStr(model_type, run_info, epoch) == <<model_type, run_info, epoch>>
\* Path(checkpoint_dir) / f"{f_str}.tar"
EpochPath(f_str) == <<"", f_str, ".tar">>
\* Path(checkpoint_dir) / f"best_model_{f_str}.tar"
BestPath(f_str) == <<"best_model_", f_str, ".tar">>

IsBestName(n) == n[1] = "best_model_"

\* The record save_checkpoint assembles.
Checkpoint(m, w, ts, epoch, best_epoch) ==
    [best_val_lb  |-> ts.best_val_lb,
     best_epoch   |-> best_epoch,
     epoch        |-> epoch,
     model_type   |-> m.model,
     model_params |-> m.params,
     optimizer    |-> ts.optimizer,
     state_dict   |-> [shape |-> m.params, weights |-> w],
     summary_vals |-> ts.summary,
     values       |-> ts.values]

\* shutil.copyfile(src, dst) in directory d
CopyFile(d, src, dst) == WriteFile(d, dst, d[src])

\* A save that promotes every epoch, best or not.
SavedDirAlwaysCopy(d, m, w, ts, epoch, best_epoch) ==
    LET f_str == FStr(m.model, RunInfo, epoch)
        f_path == EpochPath(f_str)
        d1 == WriteFile(d, f_path, Checkpoint(m, w, ts, epoch, best_epoch))
    IN CopyFile(d1, f_path, BestPath(f_str))
\* The directory after save_checkpoint(model, ..., epoch, best_epoch, ...).
SavedDir(d, m, w, ts, epoch, best_epoch) ==
    LET f_str == FStr(m.model, RunInfo, epoch)
        f_path == EpochPath(f_str)
        d1 == WriteFile(d, f_path, Checkpoint(m, w, ts, epoch, best_epoch))
    IN IF best_epoch = epoch
       THEN CopyFile(d1, f_path, BestPath(f_str))
       ELSE d1

save_checkpoint ==
    /\ cpc = "train"
    /\ Len(calls) < MaxSaves
    /\ \E epoch \in Epochs, best_epoch \in Epochs, w \in Weights, ts \in TrainStates :
         /\ files' = SavedDir(files, net, w, ts, epoch, best_epoch)
         /\ calls' = Append(calls, [epoch |-> epoch, best_epoch |-> best_epoch,
                                    weights |-> w, train |-> ts])
    /\ UNCHANGED <<net, cpc, loadArgs, loadResult>>

\* FHVAE(*model_params) / SimpleFHVAE(*model_params): a freshly constructed
\* model, with freshly initialised weights, of the shape the parameters give.
NewModel(model_type, model_params) ==
    [kind |-> "module", model |-> model_type, params |-> model_params,
     weights |-> "init"]

\* model.load_state_dict(state_dict, strict): a str has no such method; a module
\* with strict loading refuses a state_dict of another shape.
LoadStateDict(model, state_dict, strict) ==
    IF model.kind = "str"
    THEN [raised |-> TRUE, exc |-> "AttributeError"]
    ELSE IF strict /\ state_dict.shape # model.params
    THEN [raised |-> TRUE, exc |-> "RuntimeError"]
    ELSE [raised |-> FALSE,
          model |-> [model EXCEPT !.weights = state_dict.weights]]

Returned(model, values, optim_state, start_epoch, best_val_lb, summary_list) ==
    [raised |-> FALSE, model |-> model, values |-> values,
     optim_state |-> optim_state, start_epoch |-> start_epoch,
     best_val_lb |-> best_val_lb, summary_list |-> summary_list]

\* A resume that starts from the epoch after the stored one.
ResumeOneEpoch(checkpoint, model) ==
    Returned(model, Some(checkpoint.values), Some(checkpoint.optimizer),
             Some(checkpoint.epoch + 1), Some(checkpoint.best_val_lb),
             Some(checkpoint.summary_vals))
\* The resume bookkeeping of the "if not finetune" block.
Resume(checkpoint, model) ==
    Returned(model, Some(checkpoint.values), Some(checkpoint.optimizer),
             Some((checkpoint.epoch + 1) + 1), Some(checkpoint.best_val_lb),
             Some(checkpoint.summary_vals))

\* A fine-tuning load that also hands back the stored values history.
ModelOnlyWithValues(checkpoint, model) ==
    Returned(model, Some(checkpoint.values), None, None, None, None)
\* The model only: every other slot keeps its initial None.
ModelOnly(checkpoint, model) ==
    Returned(model, None, None, None, None, None)

\* load_checkpoint_file(checkpoint_file, finetune) on the record read from the file
LoadCheckpointFile(checkpoint, finetune) ==
    LET model_type == checkpoint.model_type
        model_params == checkpoint.model_params
        recognized == model_type \in RecognizedTypes
        strict_mode == recognized
        model == IF recognized
                 THEN NewModel(model_type, model_params)
                 ELSE [kind |-> "str", model |-> model_type]
        loaded == LoadStateDict(model, checkpoint.state_dict, strict_mode)
    IN IF loaded.raised
       THEN loaded
       ELSE IF ~finetune
       THEN Resume(checkpoint, loaded.model)
       ELSE ModelOnly(checkpoint, loaded.model)

load_checkpoint_file ==
    /\ cpc = "train"
    /\ \E checkpoint_file \in DOMAIN files, finetune \in BOOLEAN :
         /\ loadArgs' = Some([file |-> checkpoint_file, finetune |-> finetune])
         /\ loadResult' = Some(LoadCheckpointFile(files[checkpoint_file], finetune))
    /\ cpc' = "loaded"
    /\ UNCHANGED <<net, files, calls>>

CkptInit ==
    /\ net \in [model : ModelTypes, params : ModelParams]
    /\ files = <<>>
    /\ calls = <<>>
    /\ cpc = "train"
    /\ loadArgs = None
    /\ loadResult = None

\* Nothing of the checkpoint manager runs.
CkptIdle ==
    /\ net = [model |-> "fhvae", params |-> "hus128"]
    /\ files = <<>>
    /\ calls = <<>>
    /\ cpc = "idle"
    /\ loadArgs = None
    /\ loadResult = None

CkptNext ==
    \/ save_checkpoint /\ UNCHANGED <<prepVars, mu2Vars, frameVars, evalVars>>
    \/ load_checkpoint_file /\ UNCHANGED <<prepVars, mu2Vars, frameVars, evalVars>>

-----------------------------------------------------------------------------
(* Evaluation script                                                       *)

\* --step: -1 is the default; the others index the sorted checkpoint list
Steps == {-1, 0, 1}
\* The attributes of the namespace parser.parse_args() returns.
EvalNamespace ==
    {"exp_dir", "set_name", "seqlist", "step", "tensorboard", "visdom", "tb_log_dir"}
\* The attributes create_training_strings reads, in the order it reads them.
TrainingStringFields ==
    <<"dataset", "data_format", "feat_type", "legacy", "model_type", "epochs",
      "patience", "alpha_dis">>

\* create_training_strings(args) on a namespace with the attributes ns: reading
\* an attribute the namespace does not have raises.
CreateTrainingStrings(ns) ==
    IF \E i \in DOMAIN TrainingStringFields : TrainingStringFields[i] \notin ns
    THEN [raised |-> TRUE, exc |-> "AttributeError"]
    ELSE [raised |-> FALSE]

\* Path(exp_dir).glob("best_model*.tar"): in the order the file system lists them
GlobBest(d) == {n \in DOMAIN d : IsBestName(n)}
\* Path(exp_dir).glob("*_*_e*.tar"): every checkpoint name, the best-prefixed
\* ones too
GlobEpoch(d) == DOMAIN d
\* Path order of two checkpoint names of one run: "best_model_..." is before
\* every "fhvae_...", "simple_fhvae_..." and "other_...", then by epoch.
PathBefore(a, b) ==
    \/ IsBestName(a) /\ ~IsBestName(b)
    \/ IsBestName(a) = IsBestName(b) /\ a[2][3] < b[2][3]
RECURSIVE Sorted(_)
Sorted(S) ==
    IF S = {} THEN <<>>
    ELSE LET m == CHOOSE x \in S : \A y \in S \ {x} : PathBefore(x, y)
         IN <<m>> \o Sorted(S \ {m})

\* Lines 50-55 with checkpoint_file = f.
LoadForEval(d, f) ==
    [raised |-> FALSE, checkpoint_file |-> f,
     loaded |-> LoadCheckpointFile(d[f], TRUE)]
IndexError == [raised |-> TRUE, exc |-> "IndexError"]

\* The outcomes of eval_model.py with --step step on directory d.  first is
\* the file the file system lists first among the best-prefixed ones.
EvalModel(d, step, first) ==
    LET strings == CreateTrainingStrings(EvalNamespace)
        list == Sorted(GlobEpoch(d))
    IN IF strings.raised
       THEN strings
       ELSE IF step = -1
       THEN (IF GlobBest(d) = {} THEN IndexError ELSE LoadForEval(d, first))
       ELSE IF step + 1 \in DOMAIN list
       THEN LoadForEval(d, list[step + 1])
       ELSE IndexError

eval_model ==
    /\ cpc = "train"
    /\ \E step \in Steps, first \in GlobBest(files) \cup {None} :
         /\ first = None <=> GlobBest(files) = {}
         /\ evalResult' = Some([step |-> step, outcome |-> EvalModel(files, step, first)])
    /\ cpc' = "evaluated"
    /\ UNCHANGED <<net, files, calls, loadArgs, loadResult>>

\* The evaluation script has not run.
EvalIdle == evalResult = None

EvalNext ==
    \/ save_checkpoint /\ UNCHANGED <<prepVars, mu2Vars, frameVars, evalVars>>
    \/ eval_model /\ UNCHANGED <<prepVars, mu2Vars, frameVars>>

-----------------------------------------------------------------------------
(* Feature materializer                                                    *)

MaxUtts == 2
PoolUtts == 1

\* for s in ["train", "dev", "test"]
SetNames == {"train", "dev", "test"}
DatasetDir == "data"
OutputDirs == {None, Some("out")}

\* The audio files of the corpus: native sample rate (Hz) and length (samples).
\* "gone.flac" is listed by a manifest but is not on disk.
Audio ==
    [p \in {"a.flac", "b.flac"} |->
        IF p = "a.flac" THEN [rate |-> 16000, samples |-> 16000]
                        ELSE [rate |-> 8000, samples |-> 4000]]
Rates == {16000, 8000}
\* The lines a wav.scp can hold: f"{uid} {path}"
WavLines ==
    {[seq |-> "u1", path |-> "a.flac"],
     [seq |-> "u2", path |-> "b.flac"],
     [seq |-> "u3", path |-> "gone.flac"]}
Manifests(n) == UNION {[1..k -> WavLines] : k \in 0..n}

\* Outputs a previous run left behind.
StaleFeats == <<[seq |-> "old", path |-> <<<<"old">>, <<"old", ".npy">>>>]>>
StaleLens == <<[seq |-> "old", len |-> 7]>>

\* hop_t: float = 0.010, in milliseconds
HopMs == 10

\* A set_path that leaves the partition's name out.
SetPathShared(output_dir, s) ==
    IF output_dir # None THEN <<output_dir[1]>> ELSE <<DatasetDir>>
\* set_path = Path(output_dir) / set_name, or Path(dataset_dir) / set_name
SetPath(output_dir, s) ==
    IF output_dir # None THEN <<output_dir[1], s>> ELSE <<DatasetDir, s>>
\* for name in ("wav.scp", "feats.scp", "len.scp"): a file name is its stem
\* and its extension.
WavScp == <<"wav", ".scp">>
FeatsScp == <<"feats", ".scp">>
LenScp == <<"len", ".scp">>
\* set_path / name
FilePath(set_path, name) == <<set_path, name>>
\* os.path.join(set_path, f"{seq}.npy")
NpPath(set_path, seq) == <<set_path, <<seq, ".npy">>>>

\* ceil(a / b) for positive b
CeilDiv(a, b) == (a + b - 1) \div b

\* librosa.load(path, sr, mono=True): the audio at its native rate when sr is
\* None, else resampled to sr; the rate returned is the rate of the samples
\* returned.
LibrosaLoad(path, sr) ==
    IF path \notin DOMAIN Audio
    THEN [raised |-> TRUE]
    ELSE IF sr = None
    THEN [raised |-> FALSE, sr |-> Audio[path].rate,
          y |-> [src |-> path, samples |-> Audio[path].samples]]
    ELSE [raised |-> FALSE, sr |-> sr[1],
          y |-> [src |-> path,
                 samples |-> CeilDiv(Audio[path].samples * sr[1], Audio[path].rate)]]

\* hop_length = int(sr * hop_t)
HopLength(sr) == (sr * HopMs) \div 1000
\* generate_feat: the (frames, channels) matrix of the audio; one frame per hop,
\* the signal being padded on both sides.
GenerateFeat(y, sample_rate) ==
    [src |-> y.src, sr |-> sample_rate,
     frames |-> 1 + (y.samples \div HopLength(sample_rate))]

\* A write of one line through a file object that has written pos lines.
WriteLine(content, pos, line) ==
    [k \in 1..(IF Len(content) > pos THEN Len(content) ELSE pos + 1) |->
        IF k = pos + 1 THEN line
        ELSE IF k <= Len(content) THEN content[k] ELSE [seq |-> "hole"]]

Ready == [pc |-> "ready", i |-> 0, sample_rate |-> None, count |-> 0, exc |-> ""]
NotInvoked == [Ready EXCEPT !.pc = "idle"]
Raise(w, exc) == [w EXCEPT !.pc = "raised", !.exc = exc]

\* An invocation's view of the world: st = [disk, dirs, w, written].

\* A start that creates the directory and opens the outputs before it checks
\* for the manifest.
StartStepOpenFirst(st, a, s) ==
    LET set_path == SetPath(a.np_dir, s)
        wav_path == FilePath(set_path, WavScp)
        feat_path == FilePath(set_path, FeatsScp)
        len_path == FilePath(set_path, LenScp)
        opened == [disk |-> WriteFile(WriteFile(st.disk, feat_path, <<>>), len_path, <<>>),
                   dirs |-> st.dirs \cup {set_path},
                   w |-> [st.w EXCEPT !.pc = "loop", !.sample_rate = a.sr],
                   written |-> st.written \cup {feat_path, len_path}]
    IN IF wav_path \notin DOMAIN st.disk
       THEN [opened EXCEPT !.w = Raise(st.w, "ValueError: wav.scp does not exist")]
       ELSE opened
\* prepare_numpy up to the loop: the paths, the check for wav.scp, makedirs,
\* the three opens (the two outputs with mode "w").
StartStep(st, a, s) ==
    LET set_path == SetPath(a.np_dir, s)
        wav_path == FilePath(set_path, WavScp)
        feat_path == FilePath(set_path, FeatsScp)
        len_path == FilePath(set_path, LenScp)
    IN IF wav_path \notin DOMAIN st.disk
       THEN [st EXCEPT !.w = Raise(st.w, "ValueError: wav.scp does not exist")]
       ELSE [disk |-> WriteFile(WriteFile(st.disk, feat_path, <<>>), len_path, <<>>),
             dirs |-> st.dirs \cup {set_path},
             w |-> [st.w EXCEPT !.pc = "loop", !.sample_rate = a.sr],
             written |-> st.written \cup {feat_path, len_path}]

\* Writes that leave out the frame-count line of an utterance id whose
\* artifact is already there.
WriteUtteranceOnce(st, set_path, seq, feat) ==
    LET np_path == NpPath(set_path, seq)
        feat_path == FilePath(set_path, FeatsScp)
        len_path == FilePath(set_path, LenScp)
        d1 == WriteFile(st.disk, np_path, feat)
        d2 == WriteFile(d1, feat_path,
                        WriteLine(d1[feat_path], st.w.i, [seq |-> seq, path |-> np_path]))
    IN IF np_path \in DOMAIN st.disk
       THEN d2
       ELSE WriteFile(d2, len_path,
                      WriteLine(d2[len_path], st.w.i, [seq |-> seq, len |-> feat.frames]))
\* The files after one utterance: the artifact (np.save), then one line in
\* feats.scp and one in len.scp.
WriteUtterance(st, set_path, seq, feat) ==
    LET np_path == NpPath(set_path, seq)
        feat_path == FilePath(set_path, FeatsScp)
        len_path == FilePath(set_path, LenScp)
        d1 == WriteFile(st.disk, np_path, feat)
        d2 == WriteFile(d1, feat_path,
                        WriteLine(d1[feat_path], st.w.i, [seq |-> seq, path |-> np_path]))
    IN WriteFile(d2, len_path,
                 WriteLine(d2[len_path], st.w.i, [seq |-> seq, len |-> feat.frames]))

\* One iteration of "for i, line in enumerate(wavfile)".
IterStep(st, a, s) ==
    LET set_path == SetPath(a.np_dir, s)
        line == st.disk[FilePath(set_path, WavScp)][st.w.i + 1]
        ld == LibrosaLoad(line.path, st.w.sample_rate)
    IN IF ld.raised
       THEN [st EXCEPT !.w = Raise(st.w, "librosa.load failed")]
       ELSE IF st.w.sample_rate # None /\ st.w.sample_rate[1] # ld.sr
       THEN [st EXCEPT !.w = Raise(st.w, "ValueError: Inconsistent sample rate")]
       ELSE LET sample_rate == IF st.w.sample_rate = None THEN ld.sr
                                                          ELSE st.w.sample_rate[1]
                feat == GenerateFeat(ld.y, sample_rate)
            IN [disk |-> WriteUtterance(st, set_path, line.seq, feat),
                dirs |-> st.dirs,
                w |-> [st.w EXCEPT !.sample_rate = Some(sample_rate),
                                   !.count = st.w.i + 1,
                                   !.i = st.w.i + 1],
                written |-> st.written \cup {NpPath(set_path, line.seq)}]

\* The loop is exhausted: the files are closed and count is returned.
FinishStep(st, a, s) == [st EXCEPT !.w.pc = "returned"]

WavOf(st, a, s) == st.disk[FilePath(SetPath(a.np_dir, s), WavScp)]
View(s) == [disk |-> disk, dirs |-> dirs, w |-> wk[s], written |-> written[s]]
Install(st, s) ==
    /\ disk' = st.disk
    /\ dirs' = st.dirs
    /\ wk' = [wk EXCEPT ![s] = st.w]
    /\ written' = [written EXCEPT ![s] = st.written]
    /\ UNCHANGED <<args, initial>>

prepare_start(s) ==
    /\ wk[s].pc = "ready"
    /\ Install(StartStep(View(s), args, s), s)

prepare_iterate(s) ==
    /\ wk[s].pc = "loop"
    /\ wk[s].i < Len(WavOf(View(s), args, s))
    /\ Install(IterStep(View(s), args, s), s)

prepare_return(s) ==
    /\ wk[s].pc = "loop"
    /\ wk[s].i = Len(WavOf(View(s), args, s))
    /\ Install(FinishStep(View(s), args, s), s)

\* The partitions the command line runs: each of the three (in a Pool(3)) when
\* set_name is None, else the one named.
Invoked(a) == IF a.set_name = None THEN SetNames ELSE {a.set_name[1]}

\* The file system before the run.  mc gives, per partition, its wav.scp (None:
\* there is none); stale tells whether an earlier run left outputs behind.
InitDisk(a, mc, stale) ==
    LET listed == {s \in SetNames : mc[s] # None}
        paths == {FilePath(SetPath(a.np_dir, s), WavScp) : s \in listed}
                 \cup (IF stale
                       THEN {FilePath(SetPath(a.np_dir, s), n) :
                                s \in Invoked(a), n \in {FeatsScp, LenScp}}
                       ELSE {})
        setOf(p) == CHOOSE s \in listed : p[1] = SetPath(a.np_dir, s)
    IN [p \in paths |->
          IF p[2] = WavScp THEN mc[setOf(p)][1]
          ELSE IF p[2] = FeatsScp THEN StaleFeats ELSE StaleLens]
InitDirs(d) == {p[1] : p \in DOMAIN d}

PrepInitWith(a, mc, stale) ==
    /\ args = a
    /\ disk = InitDisk(a, mc, stale)
    /\ dirs = InitDirs(disk)
    /\ wk = [s \in SetNames |-> IF s \in Invoked(a) THEN Ready ELSE NotInvoked]
    /\ written = [s \in SetNames |-> {}]
    /\ initial = [disk |-> disk, dirs |-> dirs]

\* prepare_numpy(*func_args) for one partition.
PrepInit ==
    \E a \in [set_name : {Some(s) : s \in SetNames}, np_dir : OutputDirs,
              sr : {None} \cup {Some(r) : r \in Rates}],
       m \in {None} \cup {Some(x) : x \in Manifests(MaxUtts)},
       stale \in BOOLEAN :
        PrepInitWith(a, [s \in SetNames |-> IF Some(s) = a.set_name THEN m ELSE None], stale)

\* p.starmap(prepare_numpy, starmap_args) over the three partitions, --np_dir
\* and --sr being left at their default, None.
PoolInit ==
    \E a \in [set_name : {None}, np_dir : {None}, sr : {None}],
       mc \in [SetNames -> {None} \cup {Some(x) : x \in Manifests(PoolUtts)}],
       stale \in BOOLEAN :
        PrepInitWith(a, mc, stale)

\* Nothing of the materializer runs.
PrepIdle ==
    /\ args = [set_name |-> None, np_dir |-> None, sr |-> None]
    /\ disk = <<>>
    /\ dirs = {}
    /\ wk = [s \in SetNames |-> NotInvoked]
    /\ written = [s \in SetNames |-> {}]
    /\ initial = [disk |-> <<>>, dirs |-> {}]

PrepNext ==
    \E s \in SetNames :
        \/ prepare_start(s) /\ UNCHANGED <<ckptVars, mu2Vars, frameVars, evalVars>>
        \/ prepare_iterate(s) /\ UNCHANGED <<ckptVars, mu2Vars, frameVars, evalVars>>
        \/ prepare_return(s) /\ UNCHANGED <<ckptVars, mu2Vars, frameVars, evalVars>>

-----------------------------------------------------------------------------
(* Latent statistic estimator                                              *)

MaxBatches == 2

SeqIds == {"s1", "s2"}
\* The latent codes the encoder gives (one component of the z2 vector).
Codes == {-1, 2}
\* An example of a batch: its sequence id and the z2 code the model's forward
\* pass gives for its features.
Examples == [idx : SeqIds, z2 : Codes]
Batches == UNION {[1..k -> Examples] : k \in {1, 2}}
Loaders == UNION {[1..n -> Batches] : n \in 0..MaxBatches}
\* exp(model.pz2[1]) and exp(model.pmu2[1]): the variances of the two priors
PriorVariances == {[pz2 |-> 1, pmu2 |-> 1], [pz2 |-> 1, pmu2 |-> 4]}

\* A quotient num / den, kept exact.
Frac(num, den) == [num |-> num, den |-> den]
\* n + q, and n / q, for an integer n and a quotient q
AddTo(n, q) == Frac(n * q.den + q.num, q.den)
DivBy(n, q) == Frac(n * q.den, q.num)

\* model(features, idxs, ...); z2 = model.qz2_x[0]
ForwardZ2(batch) == [k \in 1..Len(batch) |-> batch[k].z2]
Idxs(batch) == [k \in 1..Len(batch) |-> batch[k].idx]

\* table[key] of a defaultdict(float)
Get(table, key) == IF key \in DOMAIN table THEN table[key] ELSE 0
Put(table, key, v) == [k \in DOMAIN table \cup {key} |-> IF k = key THEN v ELSE table[k]]

\* An accumulation that restarts the count of an id at every occurrence.
AccumulateLast(t, y, z2) ==
    [nseg |-> Put(t.nseg, y, 1),
     z2_sum |-> Put(t.z2_sum, y, Get(t.z2_sum, y) + z2)]
\* z2_sum_table[_y] += _z2; nseg_table[_y] += 1
Accumulate(t, y, z2) ==
    [nseg |-> Put(t.nseg, y, Get(t.nseg, y) + 1),
     z2_sum |-> Put(t.z2_sum, y, Get(t.z2_sum, y) + z2)]

\* for _y, _z2 in zip(idxs, z2): the tables after the pairs k.. of the batch
RECURSIVE AccumulateFrom(_, _, _, _)
AccumulateFrom(t, idxs, z2, k) ==
    IF k > Len(idxs) \/ k > Len(z2) THEN t
    ELSE AccumulateFrom(Accumulate(t, idxs[k], z2[k]), idxs, z2, k + 1)

\* r = np.exp(model.pz2[1]) / np.exp(model.pmu2[1])
PriorRatio(m) == Frac(m.pz2, m.pmu2)
\* mu2_dict[_y] = z2_sum_table[_y] / (nseg_table[_y] + r), for _y in nseg_table
Mu2Dict(nseg, z2_sum, m) ==
    [y \in DOMAIN nseg |-> DivBy(z2_sum[y], AddTo(nseg[y], PriorRatio(m)))]

\* model.eval() and the two empty tables
estimate_enter ==
    /\ mpc = "entry"
    /\ fhvae' = [fhvae EXCEPT !.mode = "eval"]
    /\ nseg_table' = <<>>
    /\ z2_sum_table' = <<>>
    /\ mpc' = "loop"
    /\ UNCHANGED <<loader, seen, mu2_dict>>

\* One iteration of "for _, (idxs, features, nsegs) in enumerate(loader)".
estimate_batch ==
    /\ mpc = "loop"
    /\ Len(seen) < Len(loader)
    /\ LET b == Len(seen) + 1
           batch == loader[b]
           t == AccumulateFrom([nseg |-> nseg_table, z2_sum |-> z2_sum_table],
                               Idxs(batch), ForwardZ2(batch), 1)
       IN /\ nseg_table' = t.nseg
          /\ z2_sum_table' = t.z2_sum
          /\ seen' = Append(seen, b)
    /\ UNCHANGED <<loader, fhvae, mpc, mu2_dict>>

\* The loader is exhausted: mu2_dict is built and returned.
estimate_return ==
    /\ mpc = "loop"
    /\ Len(seen) = Len(loader)
    /\ mu2_dict' = Some(Mu2Dict(nseg_table, z2_sum_table, fhvae))
    /\ mpc' = "done"
    /\ UNCHANGED <<loader, fhvae, seen, nseg_table, z2_sum_table>>

Mu2Init ==
    /\ loader \in Loaders
    /\ \E v \in PriorVariances : fhvae = [mode |-> "train", pz2 |-> v.pz2, pmu2 |-> v.pmu2]
    /\ mpc = "entry"
    /\ seen = <<>>
    /\ nseg_table = <<>>
    /\ z2_sum_table = <<>>
    /\ mu2_dict = None

\* Nothing of the estimator runs.
Mu2Idle ==
    /\ loader = <<>>
    /\ fhvae = [mode |-> "train", pz2 |-> 1, pmu2 |-> 1]
    /\ mpc = "idle"
    /\ seen = <<>>
    /\ nseg_table = <<>>
    /\ z2_sum_table = <<>>
    /\ mu2_dict = None

Mu2Next ==
    \/ estimate_enter /\ UNCHANGED <<ckptVars, prepVars, frameVars, evalVars>>
    \/ estimate_batch /\ UNCHANGED <<ckptVars, prepVars, frameVars, evalVars>>
    \/ estimate_return /\ UNCHANGED <<ckptVars, prepVars, frameVars, evalVars>>

-----------------------------------------------------------------------------
(* Framing: window and hop lengths in samples                              *)

\* Sample rates in Hz, and window and hop durations in milliseconds (win_t and
\* hop_t are seconds: 25 is win_t = 0.025).
SampleRates == {8000, 11025, 16000, 22050, 44100}
HopDurations == {5, 10, 15}
WinDurations == {20, 25, 30}
FeatureTypes == {"fbank", "spec"}
\* n_fft: int = 400
DefaultNFft == 400

\* Python's round(num / den) for num >= 0, den > 0: the nearest integer, a half
\* to the even one
Round(num, den) ==
    LET q == num \div den
        r == num % den
    IN IF 2 * r < den THEN q
       ELSE IF 2 * r > den THEN q + 1
       ELSE IF q % 2 = 0 THEN q ELSE q + 1

\* round(sr * t) for t = ms / 1000
ToSamplesRounded(sr, ms) == Round(sr * ms, 1000)
\* int(sr * t) for t = ms / 1000: the product cut off at the decimal point
ToSamples(sr, ms) == (sr * ms) \div 1000

\* AudioUtils.stft: the lengths handed to librosa.core.stft
Stft(sr, n_fft, hop_ms, win_ms) ==
    [n_fft |-> Some(n_fft),
     hop_length |-> ToSamples(sr, hop_ms),
     win_length |-> ToSamples(sr, win_ms),
     mel_hop_length |-> None]
\* AudioUtils.rstft: the magnitude of stft
Rstft(sr, n_fft, hop_ms, win_ms) == Stft(sr, n_fft, hop_ms, win_ms)
\* AudioUtils.to_melspec: rstft, then librosa.feature.melspectrogram with its
\* own hop_length
ToMelspec(sr, n_fft, hop_ms, win_ms) ==
    [Rstft(sr, n_fft, hop_ms, win_ms) EXCEPT
        !.mel_hop_length = Some(ToSamples(sr, hop_ms))]
\* AudioUtils.energy_vad: the lengths handed to librosa.feature.rmse
EnergyVad(sr, hop_ms, win_ms) ==
    [n_fft |-> None,
     hop_length |-> ToSamples(sr, hop_ms),
     win_length |-> ToSamples(sr, win_ms),
     mel_hop_length |-> None]
\* generate_feat: n_fft is the window in samples, then to_melspec or rstft
GenerateFeatFraming(ftype, sr, win_ms, hop_ms) ==
    IF ftype = "fbank"
    THEN ToMelspec(sr, ToSamples(sr, win_ms), hop_ms, win_ms)
    ELSE Rstft(sr, ToSamples(sr, win_ms), hop_ms, win_ms)

Call(fn, feat_type, sr, hop_ms, win_ms, used) ==
    Some([fn |-> fn, feat_type |-> feat_type, sr |-> sr,
          hop_ms |-> hop_ms, win_ms |-> win_ms, used |-> used])

call_stft ==
    \E sr \in SampleRates, hop_ms \in HopDurations, win_ms \in WinDurations :
        framed' = Call("stft", None, sr, hop_ms, win_ms, Stft(sr, DefaultNFft, hop_ms, win_ms))

call_energy_vad ==
    \E sr \in SampleRates, hop_ms \in HopDurations, win_ms \in WinDurations :
        framed' = Call("energy_vad", None, sr, hop_ms, win_ms, EnergyVad(sr, hop_ms, win_ms))

call_to_melspec ==
    \E sr \in SampleRates, hop_ms \in HopDurations, win_ms \in WinDurations :
        framed' = Call("to_melspec", None, sr, hop_ms, win_ms,
                       ToMelspec(sr, DefaultNFft, hop_ms, win_ms))

call_generate_feat ==
    \E ftype \in FeatureTypes, sr \in SampleRates,
       hop_ms \in HopDurations, win_ms \in WinDurations :
        framed' = Call("generate_feat", Some(ftype), sr, hop_ms, win_ms,
                       GenerateFeatFraming(ftype, sr, win_ms, hop_ms))

\* No framing function has been called.
FrameIdle == framed = None

FrameNext ==
    \/ call_stft /\ UNCHANGED <<ckptVars, prepVars, mu2Vars, evalVars>>
    \/ call_energy_vad /\ UNCHANGED <<ckptVars, prepVars, mu2Vars, evalVars>>
    \/ call_to_melspec /\ UNCHANGED <<ckptVars, prepVars, mu2Vars, evalVars>>
    \/ call_generate_feat /\ UNCHANGED <<ckptVars, prepVars, mu2Vars, evalVars>>

-----------------------------------------------------------------------------
(* Specifications                                                          *)

\* A training run saves checkpoints; one of them is then loaded.
InitCheckpoint == CkptInit /\ PrepIdle /\ Mu2Idle /\ FrameIdle /\ EvalIdle
SpecCheckpoint == InitCheckpoint /\ [][CkptNext]_vars
\* prepare_numpy for one partition.
InitPrepare == PrepInit /\ CkptIdle /\ Mu2Idle /\ FrameIdle /\ EvalIdle
SpecPrepare == InitPrepare /\ [][PrepNext]_vars
\* prepare_numpy for the three partitions, in three worker processes.
InitPool == PoolInit /\ CkptIdle /\ Mu2Idle /\ FrameIdle /\ EvalIdle
SpecPool == InitPool /\ [][PrepNext]_vars
\* estimate_mu2_dict over one loader.
InitEstimate == Mu2Init /\ CkptIdle /\ PrepIdle /\ FrameIdle /\ EvalIdle
SpecEstimate == InitEstimate /\ [][Mu2Next]_vars
\* Calls of the framing functions, on any rate and durations.
InitFraming == FrameIdle /\ CkptIdle /\ PrepIdle /\ Mu2Idle /\ EvalIdle
SpecFraming == InitFraming /\ [][FrameNext]_vars
\* A training run's saves, then the evaluation script on its directory.
InitEval == CkptInit /\ PrepIdle /\ Mu2Idle /\ FrameIdle /\ EvalIdle
SpecEval == InitEval /\ [][EvalNext]_vars

-----------------------------------------------------------------------------
(* Properties of the checkpoint manager                                    *)

BestNames == {n \in DOMAIN files : IsBestName(n)}
LastCall == calls[Len(calls)]
CallEpochPath(c) == EpochPath(FStr(net.model, RunInfo, c.epoch))
CallBestPath(c) == BestPath(FStr(net.model, RunInfo, c.epoch))
\* Call c wrote file n.
Wrote(c, n) ==
    \/ n = CallEpochPath(c)
    \/ c.best_epoch = c.epoch /\ n = CallBestPath(c)
\* The last save_checkpoint call that wrote file n.
Writer(n) ==
    LET i == CHOOSE k \in 1..Len(calls) :
                 /\ Wrote(calls[k], n)
                 /\ \A j \in (k + 1)..Len(calls) : ~Wrote(calls[j], n)
    IN calls[i]

Loaded == cpc = "loaded"
LoadedFile == loadArgs[1].file
Finetune == loadArgs[1].finetune
Result == loadResult[1]
LoadedRecognized == files[LoadedFile].model_type \in RecognizedTypes

\* C1: over the save_checkpoint calls of one run (one model type, one run id)
\* the directory holds at most one file with the best_model_ prefix.
C1_AtMostOneBest == Cardinality(BestNames) <= 1

\* C2: a save with epoch = best_epoch leaves the epoch-indexed file and a
\* best-prefixed file of identical content; a save with epoch # best_epoch
\* writes the epoch-indexed file and nothing else, so that every other file of
\* the directory, every best-prefixed file among them, is as it was; and no
\* save removes a file.
C2_SaveFrame ==
    [][Len(calls') = Len(calls) + 1 =>
         LET c == calls'[Len(calls')]
             ep == CallEpochPath(c)
             bp == CallBestPath(c)
         IN /\ ep \in DOMAIN files'
            /\ files'[ep].epoch = c.epoch
            /\ files'[ep].state_dict.weights = c.weights
            /\ c.best_epoch = c.epoch =>
                 /\ bp \in DOMAIN files'
                 /\ files'[bp] = files'[ep]
            /\ c.best_epoch # c.epoch =>
                 /\ DOMAIN files' = DOMAIN files \cup {ep}
                 /\ \A n \in DOMAIN files \ {ep} : files'[n] = files[n]
                 /\ \A n \in BestNames : n \in DOMAIN files' /\ files'[n] = files[n]
            /\ DOMAIN files \subseteq DOMAIN files']_vars

\* A non-best save was made while a best-prefixed file of an earlier best save
\* was in the directory.
C2_Witness ==
    /\ Len(calls) = 2
    /\ calls[1].best_epoch = calls[1].epoch
    /\ calls[2].best_epoch # calls[2].epoch
    /\ CallBestPath(calls[1]) \in DOMAIN files
    /\ files[CallBestPath(calls[1])].state_dict.weights = calls[1].weights

C4_FinetuneModelOnly ==
    (Loaded /\ Finetune /\ LoadedRecognized) =>
        /\ ~Result.raised
        /\ Result.values = None
        /\ Result.optim_state = None
        /\ Result.start_epoch = None
        /\ Result.best_val_lb = None
        /\ Result.summary_list = None
        /\ Result.model.weights = files[LoadedFile].state_dict.weights
        /\ Result.model.weights = Writer(LoadedFile).weights

\* A best-prefixed checkpoint of a recognized type was loaded for fine-tuning.
C4_Witness ==
    /\ Loaded /\ Finetune /\ LoadedRecognized
    /\ IsBestName(LoadedFile)
    /\ ~Result.raised
    /\ Result.model.weights = "w2"

\* C5: loading a checkpoint whose type tag is neither "fhvae" nor
\* "simple_fhvae" completes, and returns the tag in the model slot.
C5_UnrecognizedNotFatal ==
    (Loaded /\ ~LoadedRecognized) =>
        /\ ~Result.raised
        /\ Result.model.model = files[LoadedFile].model_type

-----------------------------------------------------------------------------
(* Properties of the feature materializer                                  *)

MissingManifest == "ValueError: wav.scp does not exist"
OwnDir(s) == SetPath(args.np_dir, s)
WavFile(s) == disk[FilePath(OwnDir(s), WavScp)]
FeatsFile(s) == disk[FilePath(OwnDir(s), FeatsScp)]
LensFile(s) == disk[FilePath(OwnDir(s), LenScp)]
\* The invocation for s has opened its files.
Opened(s) ==
    \/ wk[s].pc \in {"loop", "returned"}
    \/ wk[s].pc = "raised" /\ wk[s].exc # MissingManifest
Terminated(s) == wk[s].pc \in {"idle", "returned", "raised"}

\* C6: the pinned rate is the caller's, or else the first utterance's, for the
\* rest of the run; and in a run whose rate is pinned by the first utterance,
\* an utterance of line 2 or later whose native rate differs from the pinned
\* rate stops the run: the loop does not get past it and neither output
\* manifest gets a line for it.
C6_RateMismatchRaises ==
    \A s \in SetNames :
        (Opened(s) /\ wk[s].i >= 1) =>
            LET first == Audio[WavFile(s)[1].path].rate
                pinned == IF args.sr # None THEN args.sr[1] ELSE first
            IN /\ wk[s].sample_rate = Some(pinned)
               /\ args.sr = None =>
                    \A k \in 2..Len(WavFile(s)) :
                        (/\ WavFile(s)[k].path \in DOMAIN Audio
                         /\ Audio[WavFile(s)[k].path].rate # pinned) =>
                            /\ wk[s].i < k
                            /\ Len(FeatsFile(s)) < k
                            /\ Len(LensFile(s)) < k

\* C7: when wav.scp is absent the invocation raises, and the file system is
\* what it was: no directory more, feats.scp and len.scp neither created nor
\* emptied, no artifact.
C7_MissingManifestNoEffect ==
    \A s \in Invoked(args) :
        (FilePath(OwnDir(s), WavScp) \notin DOMAIN initial.disk /\ wk[s].pc # "ready") =>
            /\ wk[s].pc = "raised"
            /\ wk[s].exc = MissingManifest
            /\ disk = initial.disk
            /\ dirs = initial.dirs
            /\ written[s] = {}

\* An invocation without wav.scp has raised, next to the outputs of an earlier run.
C7_Witness ==
    \E s \in SetNames :
        /\ wk[s].pc = "raised"
        /\ wk[s].exc = MissingManifest
        /\ FilePath(OwnDir(s), FeatsScp) \in DOMAIN disk
        /\ disk[FilePath(OwnDir(s), FeatsScp)] = StaleFeats

RECURSIVE Run(_, _, _)
Run(st, a, s) ==
    IF st.w.pc = "ready" THEN Run(StartStep(st, a, s), a, s)
    ELSE IF st.w.pc = "loop" /\ st.w.i < Len(WavOf(st, a, s))
    THEN Run(IterStep(st, a, s), a, s)
    ELSE IF st.w.pc = "loop" THEN FinishStep(st, a, s)
    ELSE st
Alone(s) ==
    Run([disk |-> initial.disk, dirs |-> initial.dirs, w |-> Ready, written |-> {}],
        args, s)
InDir(d, dir) == {p \in DOMAIN d : p[1] = dir}

\* C10: the sets of files the three invocations write are pairwise disjoint,
\* and once the three have ended each partition's directory holds the files,
\* with the contents, that its invocation run alone leaves there, and the
\* invocation has ended as it ends alone.
C10_PartitionsIndependent ==
    /\ \A s \in SetNames : \A t \in SetNames \ {s} : written[s] \cap written[t] = {}
    /\ (\A s \in SetNames : Terminated(s)) =>
         \A s \in Invoked(args) :
             LET alone == Alone(s)
             IN /\ wk[s] = alone.w
                /\ InDir(disk, OwnDir(s)) = InDir(alone.disk, OwnDir(s))
                /\ \A p \in InDir(disk, OwnDir(s)) : disk[p] = alone.disk[p]

\* The three invocations have returned, each having written its two manifests
\* and the artifact of the same utterance id: nine files in all.
C10_Witness ==
    /\ \A s \in SetNames : wk[s].pc = "returned" /\ wk[s].count = 1
    /\ \A s \in SetNames : FeatsFile(s)[1].seq = "u1"
    /\ Cardinality(UNION {written[s] : s \in SetNames}) = 9

-----------------------------------------------------------------------------
(* Properties of the latent statistic estimator                            *)

\* The (idx, z2) pairs of the batches b.. of the loader, in order.
RECURSIVE PairsFrom(_)
PairsFrom(b) == IF b > Len(loader) THEN <<>> ELSE loader[b] \o PairsFrom(b + 1)
AllPairs == PairsFrom(1)
Occurrences(y) == {k \in 1..Len(AllPairs) : AllPairs[k].idx = y}
RECURSIVE SumOver(_)
SumOver(ks) ==
    IF ks = {} THEN 0
    ELSE LET k == CHOOSE x \in ks : TRUE IN AllPairs[k].z2 + SumOver(ks \ {k})

\* C9: estimate_mu2_dict takes every batch of the loader once, in order; the
\* mapping it returns has an entry for exactly the sequence ids that occur in
\* some batch, and the entry of an id that occurs n times is
\* (the sum of its n codes) / (n + r), r = pz2 variance / pmu2 variance.
C9_ShrinkageEstimate ==
    mpc = "done" =>
        /\ seen = [k \in 1..Len(loader) |-> k]
        /\ DOMAIN mu2_dict[1] = {y \in SeqIds : Occurrences(y) # {}}
        /\ \A y \in DOMAIN mu2_dict[1] :
             LET n == Cardinality(Occurrences(y))
                 total == SumOver(Occurrences(y))
                 e == mu2_dict[1][y]
             IN /\ e.den > 0
                \* e = total / (n + pz2 / pmu2)
                /\ e.num * (n * fhvae.pmu2 + fhvae.pz2) = total * fhvae.pmu2 * e.den

\* An estimate was returned for an id seen in two batches, none for an id
\* seen in no batch.
C9_Witness ==
    /\ mpc = "done"
    /\ Len(loader) = 2
    /\ \A b \in 1..2 : \E k \in 1..Len(loader[b]) : loader[b][k].idx = "s1"
    /\ DOMAIN mu2_dict[1] = {"s1"}
    /\ fhvae.pmu2 # fhvae.pz2

-----------------------------------------------------------------------------
(* Properties of the framing                                               *)

\* The lengths in samples the last call derived from a duration: each with the
\* duration (ms) it stands for.  generate_feat derives its n_fft from win_t.
DerivedLengths ==
    LET c == framed[1]
        u == c.used
    IN {<<u.hop_length, c.hop_ms>>, <<u.win_length, c.win_ms>>}
       \cup (IF u.mel_hop_length # None THEN {<<u.mel_hop_length[1], c.hop_ms>>} ELSE {})
       \cup (IF c.fn = "generate_feat"
             THEN {<<u.n_fft[1], c.win_ms>>} ELSE {})

\* C11 as stated: every window and hop length in samples is
\* round(rate * seconds).
C11_LengthsRounded ==
    framed # None =>
        \A x \in DerivedLengths : x[1] = Round(framed[1].sr * x[2], 1000)

\* C11 as amended: every window and hop length in samples is
\* int(rate * seconds), the largest integer not above rate * seconds; it is
\* round(rate * seconds) or one less.
C11_LengthsTruncated ==
    framed # None =>
        \A x \in DerivedLengths :
            /\ x[1] * 1000 <= framed[1].sr * x[2]
            /\ framed[1].sr * x[2] < (x[1] + 1) * 1000
            /\ Round(framed[1].sr * x[2], 1000) - x[1] \in {0, 1}

\* generate_feat on 11025 Hz with a window of 25 ms (275.625 samples) used an
\* n_fft and a window of 275 samples, and a hop of 10 ms (110.25) 110.
C11_Witness ==
    /\ framed # None
    /\ framed[1].fn = "generate_feat" /\ framed[1].feat_type = Some("fbank")
    /\ framed[1].sr = 11025 /\ framed[1].win_ms = 25 /\ framed[1].hop_ms = 10
    /\ framed[1].used.n_fft = Some(275)
    /\ framed[1].used.win_length = 275
    /\ framed[1].used.hop_length = 110
    /\ framed[1].used.mel_hop_length = Some(110)

-----------------------------------------------------------------------------
(* Properties of the evaluation script                                     *)

Evaluated == cpc = "evaluated"
\* Each epoch saved once, in order, its best_epoch the best epoch so far.
TrainingRun ==
    \A k \in 1..Len(calls) :
        /\ calls[k].epoch = k
        /\ calls[k].best_epoch \in (IF k = 1 THEN {1} ELSE {calls[k - 1].best_epoch, k})

\* C12: after the saves of a training run (each epoch once, best_epoch the best
\* epoch so far) of a recognized model, the evaluation with step = -1 loads the
\* checkpoint of the most recently promoted best epoch.
C12_EvalLoadsLatestBest ==
    ( /\ Evaluated
      /\ evalResult[1].step = -1
      /\ Len(calls) >= 1
      /\ TrainingRun
      /\ net.model \in RecognizedTypes ) =>
        LET best == calls[LastCall.best_epoch]
            out == evalResult[1].outcome
        IN /\ ~out.raised
           /\ out.checkpoint_file = CallBestPath(best)
           /\ ~out.loaded.raised
           /\ out.loaded.model.weights = best.weights

====
